---- MODULE Spec2Model ----
(***************************************************************************)
(* A model of the data cube engine of src/src/cablab/cube.py: the writer   *)
(* (Cube.update and its partition store) and the reader (CubeData).        *)
(*                                                                         *)
(* Times are whole days counted from 2001-01-01 (the default ref_time), so *)
(* a datetime is an integer and a timedelta a difference of integers.      *)
(* Latitudes, longitudes and the spatial resolution are whole quarters of  *)
(* a degree, the default spatial_res: Deg(90) is 90 degrees.               *)
(***************************************************************************)
EXTENDS Integers, Sequences, FiniteSets, TLC

VARIABLES
    config,        \* the cube's CubeConfig
    closed,        \* Cube._closed
    disk,          \* the partition files under <base_dir>/data
    pc,            \* the position of the running Cube.update call, or "idle"
    provider,      \* the provider passed to the running / last Cube.update
    calls,         \* the provider methods called on that provider, in order
    target,        \* (target_start_time, target_end_time) of Cube.update
    target_year,   \* loop variable of the outer loop of Cube.update
    period,        \* loop variable of the inner loop of Cube.update
    time_1,        \* time_1 of Cube.update
    year_periods,  \* the (time_1, time_2) pairs the inner loop made for target_year
    datasets,      \* the dict of partitions opened by the running Cube.update
    handles,       \* the partition handles that are open (opened, not closed):
                   \* (session, file, n) is the n-th Dataset object the session
                   \* made for the file
    sessions,      \* the number of Cube.update calls made so far
    op,            \* the last API call made
    outcome,       \* how the last API call ended: "ok", "running" or the error raised
    data,          \* Cube._data: NoData or the CubeData reader
    result,        \* the last CubeData.get call and what it returned (else NoResult)
    gets           \* the number of CubeData.get calls made so far

vars == <<config, closed, disk, pc, provider, calls, target, target_year, period,
          time_1, year_periods, datasets, handles, sessions, op, outcome, data,
          result, gets>>

(***************************************************************************)
(* Bounds of the model.                                                    *)
(***************************************************************************)
\* the number of Cube.update calls in one behaviour
MaxSessions == 2

\* the number of CubeData.get calls in one behaviour
MaxGets == 1

(***************************************************************************)
(* The calendar: datetime(year, 1, 1), datetime.year, timedelta(days=n).   *)
(***************************************************************************)
\* the year of ref_time, day 0 of the model
RefYear == 2001

\* the last year whose 1 January the model can name
LastYear == 2012

IsLeap(y) == (y % 4 = 0) /\ ((y % 100 # 0) \/ (y % 400 = 0))

DaysInYear(y) == IF IsLeap(y) THEN 366 ELSE 365

RECURSIVE YearStart(_)
\* datetime(y, 1, 1), in days since datetime(RefYear, 1, 1)
YearStart(y) == IF y <= RefYear THEN 0 ELSE YearStart(y - 1) + DaysInYear(y - 1)

\* t.year for a datetime t
YearOf(t) == CHOOSE y \in RefYear..LastYear : YearStart(y) <= t /\ t < YearStart(y + 1)

Min(a, b) == IF a < b THEN a ELSE b

Max(a, b) == IF a > b THEN a ELSE b

\* math.ceil(a / b) for positive integers
CeilDiv(a, b) == (a + b - 1) \div b

\* math.floor(a / b) for b > 0
FloorDiv(a, b) == a \div b

(***************************************************************************)
(* Optional values: None is the empty tuple, a present value a 1-tuple.    *)
(***************************************************************************)
None == <<>>

Some(x) == <<x>>

\* the value of `result` when the last call was no CubeData.get
NoResult == [variable |-> [tag |-> "none", v |-> ""], time |-> <<>>,
             latitude |-> <<>>, longitude |-> <<>>, value |-> <<>>]

(***************************************************************************)
(* CubeConfig.                                                             *)
(***************************************************************************)
\* the number of angle units of the model in one degree: the model counts
\* angles in steps of the default spatial_res, 0.25 degrees
Unit == 4

\* n degrees
Deg(n) == n * Unit

\* the (temporal_res, start_time, end_time) triples the model draws the config
\* from: the defaults (8 days, 2001-01-01, 2011-01-01), a narrower window,
\* 73-day periods without limits, 100-day periods up to 2005-01-01, and
\* periods longer than a year
ConfigChoices == {<<8, Some(0), Some(YearStart(2011))>>,
                  <<8, Some(8), Some(360)>>,
                  <<73, None, None>>,
                  <<100, None, Some(YearStart(2005))>>,
                  <<400, None, None>>}

\* a CubeConfig of a global grid at 90 degrees: 4 columns, 2 rows
CubeConfig(res, start, end) ==
    [spatial_res |-> Deg(90), grid_x0 |-> 0, grid_y0 |-> 0,
     grid_width |-> 4, grid_height |-> 2,
     temporal_res |-> res, ref_time |-> 0,
     start_time |-> start, end_time |-> end]

\* CubeConfig.northing
northing(cfg) == Deg(90) - cfg.grid_y0 * cfg.spatial_res

\* CubeConfig.easting
easting(cfg) == -Deg(180) + cfg.grid_x0 * cfg.spatial_res

\* CubeConfig.geo_bounds: ((LL-lon, LL-lat), (UR-lon, UR-lat))
geo_bounds(cfg) ==
    <<<<easting(cfg), northing(cfg) - cfg.grid_height * cfg.spatial_res>>,
      <<easting(cfg) + cfg.grid_width * cfg.spatial_res, northing(cfg)>>>>

\* a validation that checks the grid offsets only
ValidateOffsets(cfg) ==
    IF cfg.grid_x0 < 0 \/ cfg.grid_y0 < 0 THEN "ValueError" ELSE "ok"

\* CubeConfig._validate: "ok", or the error it raises
Validate(cfg) ==
    LET lat1 == Deg(90) - (cfg.grid_y0 + cfg.grid_height) * cfg.spatial_res
        lat2 == Deg(90) - cfg.grid_y0 * cfg.spatial_res
        lon1 == -Deg(180) + cfg.grid_x0 * cfg.spatial_res
        lon2 == -Deg(180) + (cfg.grid_x0 + cfg.grid_width) * cfg.spatial_res
    IN IF cfg.grid_x0 < 0 THEN "ValueError"
       ELSE IF cfg.grid_y0 < 0 THEN "ValueError"
       ELSE IF \/ lat1 >= lat2 \/ lat1 < -Deg(90) \/ lat1 > Deg(90)
               \/ lat2 < -Deg(90) \/ lat2 > Deg(90) THEN "ValueError"
       ELSE IF \/ lon1 >= lon2 \/ lon1 < -Deg(180) \/ lon1 > Deg(180)
               \/ lon2 < -Deg(180) \/ lon2 > Deg(180) THEN "ValueError"
       ELSE "ok"

\* netCDF4.date2num(t, units='days since ref_time'): the offset from ref_time in days
date2num(cfg, t) == t - cfg.ref_time

(***************************************************************************)
(* Providers (CubeSourceProvider implementations, the environment).        *)
(***************************************************************************)
\* the variables a provider delivers, in the order of its result dict
VarNames == <<"LAI", "FAPAR">>

\* the descriptors of the test's CubeSourceProviderMock (attribute values as text)
MockDescriptors ==
    [v \in {"LAI", "FAPAR"} |->
        IF v = "LAI"
        THEN [a \in {"data_type", "fill_value", "scale_factor", "add_offset"} |->
                 CASE a = "data_type" -> "float32" [] a = "fill_value" -> "0.0"
                   [] a = "scale_factor" -> "1.0" [] OTHER -> "0.0"]
        ELSE [a \in {"data_type", "fill_value", "units", "long_name"} |->
                 CASE a = "data_type" -> "float32" [] a = "fill_value" -> "-9999.0"
                   [] a = "units" -> "1" [] OTHER -> "FAPAR"]]

\* other descriptors for the same variables
OtherDescriptors ==
    [v \in {"LAI", "FAPAR"} |->
        [a \in {"data_type", "fill_value", "units"} |->
            CASE a = "data_type" -> "float64" [] a = "fill_value" -> "-1.0"
              [] OTHER -> "percent"]]

\* 2004-01-01, the first day of a leap year
Jan2004 == YearStart(2004)

\* the providers a Cube.update call is given
Providers ==
    { \* the mock of test_update: coverage 2001-01-01 .. 2001-02-01
      [id |-> "jan", cover |-> <<0, 31>>, spatial |-> <<0, 0, 4, 2>>,
       descriptors |-> MockDescriptors, kind |-> "mock"],
      \* coverage across a year boundary: 2001-12-15 .. 2002-01-15
      [id |-> "newyear", cover |-> <<348, 379>>, spatial |-> <<0, 0, 4, 2>>,
       descriptors |-> MockDescriptors, kind |-> "mock"],
      \* coverage across the end of a leap year: 2004-12-16 .. 2005-01-11
      [id |-> "leap", cover |-> <<Jan2004 + 350, Jan2004 + 376>>,
       spatial |-> <<0, 0, 4, 2>>,
       descriptors |-> MockDescriptors, kind |-> "mock"],
      \* no images for the first period, an error raised for the third
      [id |-> "flaky", cover |-> <<0, 31>>, spatial |-> <<0, 0, 4, 2>>,
       descriptors |-> MockDescriptors, kind |-> "flaky"],
      \* another spatial coverage and other descriptors; one image is None
      [id |-> "window", cover |-> <<0, 31>>, spatial |-> <<1, 0, 3, 2>>,
       descriptors |-> OtherDescriptors, kind |-> "partial"] }

\* before the first Cube.update there is no provider
NoProvider == [id |-> "none", cover |-> <<0, 0>>, spatial |-> <<0, 0, 0, 0>>,
               descriptors |-> MockDescriptors, kind |-> "mock"]

\* an image of shape (grid_height, grid_width): rows of pixels, each pixel
\* naming the provider, the variable, the period start and its place
Image(cfg, prov, v, s) ==
    [r \in 1..cfg.grid_height |->
        [c \in 1..cfg.grid_width |-> <<prov.id, v, s, r, c>>]]

\* the provider methods called so far that are compute_variable_images calls
ComputeCalls(trace) == SelectSeq(trace, LAMBDA c : c[1] = "compute_variable_images")

\* provider.compute_variable_images(s, e) as call number n + 1 on this provider:
\* a dict as a sequence of (name, image) items, None, or an error raised
compute_variable_images(cfg, prov, s, e, n) ==
    LET full == [i \in 1..Len(VarNames) |-> <<VarNames[i], Image(cfg, prov, VarNames[i], s)>>]
    IN CASE prov.kind = "flaky" /\ n >= 2 -> [kind |-> "raise", items |-> <<>>]
         [] prov.kind = "flaky" /\ n = 0 -> [kind |-> "None", items |-> <<>>]
         [] prov.kind = "partial" ->
              [kind |-> "dict",
               items |-> [i \in 1..Len(VarNames) |->
                            IF VarNames[i] = "LAI" THEN <<"LAI", None>> ELSE full[i]]]
         [] OTHER -> [kind |-> "dict", items |-> full]

(***************************************************************************)
(* cablab.util.temporal_weight, which is not part of the given sources:    *)
(* overlap(a1, a2, b1, b2) / (a2 - a1), as the specification states it.    *)
(***************************************************************************)
\* max(0, min(a2, b2) - max(a1, b1))
overlap(a1, a2, b1, b2) == Max(0, Min(a2, b2) - Max(a1, b1))

\* temporal_weight(a1, a2, b1, b2) > 0.0, for a1 < a2
temporal_weight_positive(a1, a2, b1, b2) == overlap(a1, a2, b1, b2) > 0

(***************************************************************************)
(* The partition store: Cube._write_images, Cube._write_image and          *)
(* Cube._init_variable_dataset.  A partition file is a record of its       *)
(* schema and its records along the unlimited time dimension.              *)
(***************************************************************************)
\* '%04d_%s.nc' % (target_start_time.year, var_name), under data/<var_name>/
Filename(year, var_name) == <<var_name, year>>

\* the attributes Cube._init_variable_dataset sets on the variable
VariableAttributes(desc) ==
    [a \in (DOMAIN desc) \cup {"scale_factor", "add_offset"} |->
        IF a \in DOMAIN desc THEN desc[a]
        ELSE IF a = "scale_factor" THEN "1.0" ELSE "0.0"]

\* the schema Cube._init_variable_dataset writes into a new partition file
InitVariableDataset(cfg, prov, variable_name) ==
    LET image_x0 == prov.spatial[1]
        image_y0 == prov.spatial[2]
        image_width == prov.spatial[3]
        image_height == prov.spatial[4]
        lon0 == easting(cfg) + image_x0 * cfg.spatial_res
        lat0 == northing(cfg) + image_y0 * cfg.spatial_res
    IN [dims |-> [lat |-> image_height, lon |-> image_width],
        time_units |-> cfg.ref_time,
        lon |-> [i \in 1..image_width |-> lon0 + (i - 1) * cfg.spatial_res],
        lat |-> [i \in 1..image_height |-> lat0 - (i - 1) * cfg.spatial_res],
        attributes |-> VariableAttributes(prov.descriptors[variable_name])]

\* the provider methods Cube._init_variable_dataset calls
InitCalls == <<<<"get_spatial_coverage">>, <<"get_variable_descriptors">>>>

\* a partition store that initialises the schema on every open
OpenPartitionInit(dsk, file, cfg, prov, var_name) ==
    [schema |-> InitVariableDataset(cfg, prov, var_name),
     records |-> IF file \in DOMAIN dsk THEN dsk[file].records ELSE <<>>]

\* the partition a write works on: the file as it is when it exists (opened
\* with mode 'a'), else a new file with its schema and no records (mode 'w')
OpenPartition(dsk, file, cfg, prov, var_name) ==
    IF file \in DOMAIN dsk
    THEN dsk[file]
    ELSE [schema |-> InitVariableDataset(cfg, prov, var_name), records |-> <<>>]

\* the record var_variable[i, :, :] holds when only the time dimension grew:
\* every pixel is the variable's fill value
FillImage(schema) ==
    [r \in 1..schema.dims.lat |->
        [c \in 1..schema.dims.lon |-> <<"fill", schema.attributes["fill_value"]>>]]

\* (rows, columns) of an image
Shape(image) == <<Len(image), IF Len(image) = 0 THEN 0 ELSE Len(image[1])>>

\* var_variable[i, :, :] = image raises unless the image has the partition's shape
ShapeFits(schema, image) == Shape(image) = <<schema.dims.lat, schema.dims.lon>>

\* a write that always goes to the first element
WriteIndexFirst(records) == 1

\* the index Cube._write_image writes at
WriteIndex(records) == Len(records) + 1

\* an assignment that replaces a stored record of the same period, if there is one
SetRecordDedup(records, i, rec) ==
    IF \E k \in 1..Len(records) : records[k].start_time = rec.start_time
    THEN LET k == CHOOSE j \in 1..Len(records) : records[j].start_time = rec.start_time
         IN [records EXCEPT ![k] = rec]
    ELSE Append(records, rec)

\* the records after element i is assigned: an assignment past the end grows
\* the unlimited dimension, one inside it replaces the element
SetRecord(records, i, rec) ==
    IF i > Len(records) THEN Append(records, rec)
    ELSE [records EXCEPT ![i] = rec]

\* a lookup in the session's datasets that never finds the partition
InDatasetsNever(dsets, file) == FALSE

\* `filename in datasets`: the running update has opened the partition before
InDatasets(dsets, file) == file \in dsets

\* the number of Dataset objects session sn has made for a file and not closed
OpenCount(open, sn, file) == Cardinality({h \in open : h[1] = sn /\ h[2] = file})

\* Cube._write_image on the state st = [disk, datasets, handles, calls, error]
\* of a running update, as session number sn
WriteImage(st, sn, cfg, prov, time_range, var_name, image) ==
    LET file == Filename(YearOf(time_range[1]), var_name)
        cached == InDatasets(st.datasets, file)
        created == ~cached /\ file \notin DOMAIN st.disk
        part == OpenPartition(st.disk, file, cfg, prov, var_name)
        i == WriteIndex(part.records)
        fits == ShapeFits(part.schema, image)
        rec == [start_time |-> date2num(cfg, time_range[1]),
                end_time |-> date2num(cfg, time_range[2]),
                image |-> IF fits THEN image ELSE FillImage(part.schema)]
        written == [part EXCEPT !.records = SetRecord(part.records, i, rec)]
    IN [disk |-> [f \in (DOMAIN st.disk) \cup {file} |->
                     IF f = file THEN written ELSE st.disk[f]],
        datasets |-> st.datasets \cup {file},
        handles |-> IF cached THEN st.handles
                    ELSE st.handles \cup {<<sn, file, OpenCount(st.handles, sn, file) + 1>>},
        calls |-> IF created THEN st.calls \o InitCalls ELSE st.calls,
        error |-> IF fits THEN "ok" ELSE "WriteError"]

RECURSIVE WriteImages(_, _, _, _, _, _)
\* Cube._write_images over the items of var_name_to_image, in dict order;
\* the first error ends it
WriteImages(st, sn, cfg, prov, time_range, items) ==
    IF items = <<>> \/ st.error # "ok" THEN st
    ELSE LET var_name == Head(items)[1]
             image == Head(items)[2]
             next == IF image # None
                     THEN WriteImage(st, sn, cfg, prov, time_range, var_name, image)
                     ELSE st
         IN WriteImages(next, sn, cfg, prov, time_range, Tail(items))

(***************************************************************************)
(* Cube.update.                                                            *)
(***************************************************************************)
\* a Cube.update that does not check the closed flag
UpdateNeverRaises(is_closed) == FALSE

\* the check at the head of Cube.update: raise IOError('cube has been closed')
UpdateRaisesIOError(is_closed) == is_closed

\* (target_start_time, target_end_time): the provider's temporal coverage
\* clipped to the config's start_time and end_time
TargetWindow(cfg, cover) ==
    LET start == IF cfg.start_time # None /\ cfg.start_time[1] > cover[1]
                 THEN cfg.start_time[1] ELSE cover[1]
        end == IF cfg.end_time # None /\ cfg.end_time[1] < cover[2]
               THEN cfg.end_time[1] ELSE cover[2]
    IN <<start, end>>

\* a period count that is rounded down
NumPeriodsFloor(cfg) == 365 \div cfg.temporal_res

\* num_periods_per_year = math.ceil(365.0 / cube_temporal_res)
NumPeriodsPerYear(cfg) == CeilDiv(365, cfg.temporal_res)

\* time_2 without the clip to time_max
Time2Unclipped(cfg, year, t1) == t1 + cfg.temporal_res

\* time_2 of the inner loop: time_1 + d_time, clipped to time_max
Time2(cfg, year, t1) == Min(t1 + cfg.temporal_res, YearStart(year + 1))

\* a Cube.update call on a closed cube: IOError before anything else happens
UpdateClosed ==
    /\ pc = "idle"
    /\ sessions < MaxSessions
    /\ UpdateRaisesIOError(closed)
    /\ \E p \in Providers : provider' = p
    /\ calls' = <<>>
    /\ sessions' = sessions + 1
    /\ op' = "update"
    /\ outcome' = "IOError"
    /\ result' = NoResult
    /\ UNCHANGED <<config, closed, disk, pc, target, target_year, period, time_1,
                   year_periods, datasets, handles, data, gets>>

\* the start of a Cube.update call, up to the head of the loop over the years
UpdateBegin ==
    /\ pc = "idle"
    /\ sessions < MaxSessions
    /\ ~UpdateRaisesIOError(closed)
    /\ \E p \in Providers :
         LET window == TargetWindow(config, p.cover)
             year_1 == YearOf(window[1])
             year_2 == YearOf(window[2])
         IN /\ provider' = p
            /\ calls' = <<<<"prepare">>, <<"get_temporal_coverage">>>>
            /\ target' = window
            /\ target_year' = year_1
            /\ time_1' = YearStart(year_1)
            /\ pc' = IF year_1 <= year_2 THEN "period" ELSE "close_datasets"
    /\ period' = 0
    /\ year_periods' = <<>>
    /\ datasets' = {}
    /\ sessions' = sessions + 1
    /\ op' = "update"
    /\ outcome' = "running"
    /\ result' = NoResult
    /\ UNCHANGED <<config, closed, disk, handles, data, gets>>

\* one pass of the loop over the periods of target_year
UpdatePeriod ==
    /\ pc = "period"
    /\ period < NumPeriodsPerYear(config)
    /\ LET time_2 == Time2(config, target_year, time_1)
           called == temporal_weight_positive(time_1, time_2, target[1], target[2])
           images == compute_variable_images(config, provider, time_1, time_2,
                                             Len(ComputeCalls(calls)))
           trace == Append(calls, <<"compute_variable_images", time_1, time_2>>)
           st0 == [disk |-> disk, datasets |-> datasets, handles |-> handles,
                   calls |-> trace, error |-> "ok"]
           st == IF images.kind = "dict"
                 THEN WriteImages(st0, sessions, config, provider,
                                  <<time_1, time_2>>, images.items)
                 ELSE st0
           error == IF images.kind = "raise" THEN "ProviderError" ELSE st.error
       IN /\ year_periods' = Append(year_periods, <<time_1, time_2>>)
          /\ IF ~called
             THEN /\ time_1' = time_2
                  /\ period' = period + 1
                  /\ UNCHANGED <<disk, datasets, handles, calls, pc, outcome>>
             ELSE /\ disk' = st.disk
                  /\ datasets' = st.datasets
                  /\ handles' = st.handles
                  /\ calls' = st.calls
                  /\ IF error = "ok"
                     THEN /\ time_1' = time_2
                          /\ period' = period + 1
                          /\ UNCHANGED <<pc, outcome>>
                     ELSE /\ pc' = "idle"
                          /\ outcome' = error
                          /\ UNCHANGED <<time_1, period>>
    /\ UNCHANGED <<config, closed, provider, target, target_year, sessions, op,
                   data, result, gets>>

\* the end of the loop over the periods: the next year, or the end of the loop
\* over the years
UpdateNextYear ==
    /\ pc = "period"
    /\ period = NumPeriodsPerYear(config)
    /\ IF target_year + 1 <= YearOf(target[2])
       THEN /\ target_year' = target_year + 1
            /\ time_1' = YearStart(target_year + 1)
            /\ period' = 0
            /\ year_periods' = <<>>
            /\ UNCHANGED pc
       ELSE /\ pc' = "close_datasets"
            /\ UNCHANGED <<target_year, time_1, period, year_periods>>
    /\ UNCHANGED <<config, closed, disk, provider, calls, target, datasets, handles,
                   sessions, op, outcome, data, result, gets>>

\* an update that closes none of its datasets
ClosedNone(open, sn, dsets) == open

\* the handles that remain open when the running update closes its datasets:
\* the dict holds, for each file, the Dataset object made last for it
ClosedDatasets(open, sn, dsets) ==
    open \ {h \in open : /\ h[1] = sn
                         /\ h[2] \in dsets
                         /\ h[3] = OpenCount(open, sn, h[2])}

\* for key in datasets: datasets[key].close()
UpdateCloseDatasets ==
    /\ pc = "close_datasets"
    /\ handles' = ClosedDatasets(handles, sessions, datasets)
    /\ pc' = "provider_close"
    /\ UNCHANGED <<config, closed, disk, provider, calls, target, target_year, period,
                   time_1, year_periods, datasets, sessions, op, outcome, data, result, gets>>

\* provider.close(), and the return of Cube.update
UpdateProviderClose ==
    /\ pc = "provider_close"
    /\ calls' = Append(calls, <<"close">>)
    /\ pc' = "idle"
    /\ outcome' = "ok"
    /\ UNCHANGED <<config, closed, disk, provider, target, target_year, period,
                   time_1, year_periods, datasets, handles, sessions, op, data, result, gets>>

(***************************************************************************)
(* The reader: CubeData.  data is None or a record of                      *)
(*   names     _var_index_to_var_name, index i of the code at place i + 1  *)
(*   files     _dataset_files, per variable its partition files in order   *)
(*   datasets  _datasets / _variables: None, or Some(the records of the    *)
(*             netCDF4.MFDataset opened for the variable)                  *)
(***************************************************************************)
NoData == None

\* the subdirectories of <base_dir>/data
VarDirs(dsk) == {f[1] : f \in DOMAIN dsk}

\* the years of the partition files of a variable
YearsOf(dsk, var_name) == {f[2] : f \in {g \in DOMAIN dsk : g[1] = var_name}}

RECURSIVE SortedYears(_)
\* a set of years in ascending order: sorted() of the file names '%04d_<var>.nc'
SortedYears(years) ==
    IF years = {} THEN <<>>
    ELSE LET first == CHOOSE y \in years : \A z \in years : y <= z
         IN <<first>> \o SortedYears(years \ {first})

\* sorted(var_dir_entries) for one variable directory
DatasetFiles(dsk, var_name) ==
    LET years == SortedYears(YearsOf(dsk, var_name))
    IN [i \in 1..Len(years) |-> Filename(years[i], var_name)]

\* the orders in which os.listdir may return a set of entries
Listings(entries) ==
    {order \in [1..Cardinality(entries) -> entries] :
        \A i, j \in 1..Cardinality(entries) : i # j => order[i] # order[j]}

\* CubeData.__init__ for the directory listing `listing`
NewCubeData(dsk, listing) ==
    [names |-> listing,
     files |-> [i \in 1..Len(listing) |-> DatasetFiles(dsk, listing[i])],
     datasets |-> [i \in 1..Len(listing) |-> None]]

RECURSIVE Concat(_, _)
\* netCDF4.MFDataset(files): the records of the files, one file after the other
Concat(dsk, files) ==
    IF files = <<>> THEN <<>>
    ELSE dsk[Head(files)].records \o Concat(dsk, Tail(files))

\* a reader that opens the view on every access
OpenVariableAlways(d, dsk, var_index) ==
    [d EXCEPT !.datasets[var_index + 1] = Some(Concat(dsk, d.files[var_index + 1]))]

\* CubeData._get_or_open_variable: the reader after variable var_index (0-based)
\* is accessed
GetOrOpenVariable(d, dsk, var_index) ==
    IF d.datasets[var_index + 1] # None THEN d
    ELSE [d EXCEPT !.datasets[var_index + 1] = Some(Concat(dsk, d.files[var_index + 1]))]

\* the first place of a dataset that is None, 0 when there is none
FirstNone(dsets) ==
    IF \E i \in 1..Len(dsets) : dsets[i] = None
    THEN CHOOSE i \in 1..Len(dsets) :
            dsets[i] = None /\ \A j \in 1..(i - 1) : dsets[j] # None
    ELSE 0

\* CubeData._close_datasets: dataset.close() on None raises AttributeError and
\* ends the loop; the datasets before it are closed and set to None
CloseDatasets(dsets) ==
    LET stop == FirstNone(dsets)
    IN [datasets |-> [i \in 1..Len(dsets) |->
                        IF stop = 0 \/ i < stop THEN None ELSE dsets[i]],
        error |-> IF stop = 0 THEN "ok" ELSE "AttributeError"]

\* the variables whose virtual view is open
OpenViews(d) ==
    IF d = NoData THEN {}
    ELSE {d.names[i] : i \in {j \in 1..Len(d.names) : d.datasets[j] # None}}

\* the property Cube.data when the reader does not exist yet
CubeDataOpen ==
    /\ pc = "idle"
    /\ data = NoData
    /\ op' = "data"
    /\ result' = NoResult
    /\ IF DOMAIN disk = {}
       THEN /\ outcome' = "FileNotFoundError"
            /\ UNCHANGED data
       ELSE /\ outcome' = "ok"
            /\ \E listing \in Listings(VarDirs(disk)) : data' = NewCubeData(disk, listing)
    /\ UNCHANGED <<config, closed, disk, pc, provider, calls, target, target_year,
                   period, time_1, year_periods, datasets, handles, sessions, gets>>

\* CubeData.get_variable / CubeData.__getitem__ with a known name or index
CubeDataGetVariable ==
    /\ pc = "idle"
    /\ data # NoData
    /\ \E i \in 0..(Len(data.names) - 1) : data' = GetOrOpenVariable(data, disk, i)
    /\ op' = "get_variable"
    /\ outcome' = "ok"
    /\ result' = NoResult
    /\ UNCHANGED <<config, closed, disk, pc, provider, calls, target, target_year,
                   period, time_1, year_periods, datasets, handles, sessions, gets>>

\* CubeData.close
CubeDataClose ==
    /\ pc = "idle"
    /\ data # NoData
    /\ LET c == CloseDatasets(data.datasets)
       IN /\ data' = [data EXCEPT !.datasets = c.datasets]
          /\ outcome' = c.error
    /\ op' = "data.close"
    /\ result' = NoResult
    /\ UNCHANGED <<config, closed, disk, pc, provider, calls, target, target_year,
                   period, time_1, year_periods, datasets, handles, sessions, gets>>

\* Cube.close: an error of CubeData.close leaves _data and _closed as they were
CubeClose ==
    /\ pc = "idle"
    /\ IF data # NoData
       THEN LET c == CloseDatasets(data.datasets)
            IN IF c.error = "ok"
               THEN data' = NoData /\ closed' = TRUE /\ outcome' = "ok"
               ELSE /\ data' = [data EXCEPT !.datasets = c.datasets]
                    /\ outcome' = c.error
                    /\ UNCHANGED closed
       ELSE closed' = TRUE /\ outcome' = "ok" /\ UNCHANGED data
    /\ op' = "close"
    /\ result' = NoResult
    /\ UNCHANGED <<config, disk, pc, provider, calls, target, target_year,
                   period, time_1, year_periods, datasets, handles, sessions, gets>>

\* Cube.open on the cube's directory: a new Cube object for the same files,
\* which is the cube in use from then on, whether the one before was closed
\* or not
CubeOpen ==
    /\ pc = "idle"
    /\ closed' = FALSE
    /\ data' = NoData
    /\ op' = "open"
    /\ outcome' = "ok"
    /\ result' = NoResult
    /\ UNCHANGED <<config, disk, pc, provider, calls, target, target_year,
                   period, time_1, year_periods, datasets, handles, sessions, gets>>

(***************************************************************************)
(* CubeData.get.  A time, latitude or longitude argument is a record of   *)
(* its form ("scalar", "tuple" or "list") and its values v; the variable   *)
(* argument is tagged "name", "index", "list" or "tuple".                  *)
(***************************************************************************)
\* a scalar argument
Scalar(x) == [form |-> "scalar", v |-> <<x>>]

\* a pair passed as the tuple (a, b)
TuplePair(a, b) == [form |-> "tuple", v |-> <<a, b>>]

\* a pair passed as the list [a, b]
ListPair(a, b) == [form |-> "list", v |-> <<a, b>>]

\* x_1, x_2 = argument, and x_1 = x_2 = argument when a scalar fails to unpack
Unpack(arg) == <<arg.v[1], arg.v[Len(arg.v)]>>

\* the error of raise ValueError('...%s' % argument) for an argument of a form
\* and a length: the % operator takes a tuple as the list of its operands and
\* raises TypeError unless the tuple has exactly one element
FormatError(form, n) == IF form = "tuple" /\ n # 1 THEN "TypeError" ELSE "ValueError"

\* a % m of Python: the result has the sign of m
PyMod(a, m) == IF m > 0 THEN a % m ELSE -((-a) % (-m))

\* int(round(n / d)) of Python for n >= 0, d > 0: halves go to the even neighbour
RoundDiv(n, d) ==
    LET q == n \div d
        r == n % d
    IN IF 2 * r < d THEN q
       ELSE IF 2 * r > d THEN q + 1
       ELSE IF q % 2 = 0 THEN q ELSE q + 1

\* CubeData._get_lon_range
GetLonRange(longitude) ==
    LET a == Unpack(longitude)[1]
        b == Unpack(longitude)[2]
        a1 == IF a < -Deg(180) THEN PyMod(a, Deg(180)) ELSE a
        lon_1 == IF a1 > Deg(180) THEN PyMod(a1, -Deg(180)) ELSE a1
        b1 == IF b < -Deg(180) THEN PyMod(b, Deg(180)) ELSE b
        b2 == IF b1 > Deg(180) THEN PyMod(b1, -Deg(180)) ELSE b1
        lon_2 == IF lon_1 > b2 THEN b2 + Deg(360) ELSE b2
    IN <<lon_1, lon_2>>

\* CubeData._get_lat_range: the range and the error raised ("ok" for none)
GetLatRange(latitude) ==
    LET lat_1 == Unpack(latitude)[1]
        lat_2 == Unpack(latitude)[2]
    IN [range |-> <<lat_1, lat_2>>,
        error |-> IF \/ lat_1 < -Deg(90) \/ lat_1 > Deg(90)
                     \/ lat_2 < -Deg(90) \/ lat_2 > Deg(90) \/ lat_1 > lat_2
                  THEN FormatError(latitude.form, Len(latitude.v))
                  ELSE "ok"]

\* CubeData._get_time_range: the range and the error raised ("ok" for none)
GetTimeRange(time) ==
    LET t_1 == Unpack(time)[1]
        t_2 == Unpack(time)[2]
    IN [range |-> <<t_1, t_2>>,
        error |-> IF t_1 > t_2 THEN FormatError(time.form, Len(time.v)) ELSE "ok"]

\* the index of a variable name (0-based), -1 when the name is unknown
NameIndex(d, name) ==
    IF \E i \in 1..Len(d.names) : d.names[i] = name
    THEN (CHOOSE i \in 1..Len(d.names) : d.names[i] = name) - 1
    ELSE -1

\* whether an entry (a name or an index) is a key of one of the two mappings
Resolves(d, entry) ==
    IF entry.tag = "name" THEN NameIndex(d, entry.v) >= 0
    ELSE entry.v \in 0..(Len(d.names) - 1)

\* the index an entry that resolves stands for
Resolved(d, entry) == IF entry.tag = "name" THEN NameIndex(d, entry.v) ELSE entry.v

\* CubeData._get_var_indices: the indices and the error raised ("ok" for none).
\* An unknown name is iterated character by character: the empty name has no
\* character and gives no index, and no character of another name is a
\* variable name (the names have more than one character); an unknown index
\* is not iterable.
GetVarIndices(d, variable) ==
    IF variable.tag \in {"list", "tuple"}
    THEN IF \A k \in 1..Len(variable.v) : Resolves(d, variable.v[k])
         THEN [indexes |-> [k \in 1..Len(variable.v) |-> Resolved(d, variable.v[k])],
               error |-> "ok"]
         ELSE [indexes |-> <<>>, error |-> FormatError(variable.tag, Len(variable.v))]
    ELSE IF Resolves(d, variable)
         THEN [indexes |-> <<Resolved(d, variable)>>, error |-> "ok"]
         ELSE IF variable.tag = "name"
         THEN [indexes |-> <<>>, error |-> IF variable.v = "" THEN "ok" ELSE "ValueError"]
         ELSE [indexes |-> <<>>, error |-> "TypeError"]

\* time_index = int(math.floor((t - ref_time) / timedelta(days=temporal_res)))
TimeIndex(cfg, t) == FloorDiv(t - cfg.ref_time, cfg.temporal_res)

\* (grid_y1, grid_y2) of CubeData.get
GridRows(cfg, lat_1, lat_2) ==
    LET grid_y1 == RoundDiv(Deg(90) - lat_2, cfg.spatial_res) - cfg.grid_y0
        grid_y2 == RoundDiv(Deg(90) - lat_1, cfg.spatial_res) - cfg.grid_y0
    IN IF grid_y2 > grid_y1 /\ Deg(90) - (grid_y2 + cfg.grid_y0) * cfg.spatial_res = lat_1
       THEN <<grid_y1, grid_y2 - 1>>
       ELSE <<grid_y1, grid_y2>>

\* a column range that keeps the cell beginning at the upper bound
GridColumnsInclusive(cfg, lon_1, lon_2) ==
    <<RoundDiv(Deg(180) + lon_1, cfg.spatial_res) - cfg.grid_x0,
      RoundDiv(Deg(180) + lon_2, cfg.spatial_res) - cfg.grid_x0>>

\* (grid_x1, grid_x2) of CubeData.get
GridColumns(cfg, lon_1, lon_2) ==
    LET grid_x1 == RoundDiv(Deg(180) + lon_1, cfg.spatial_res) - cfg.grid_x0
        grid_x2 == RoundDiv(Deg(180) + lon_2, cfg.spatial_res) - cfg.grid_x0
    IN IF grid_x2 > grid_x1 /\ -Deg(180) + (grid_x2 + cfg.grid_x0) * cfg.spatial_res = lon_2
       THEN <<grid_x1, grid_x2 - 1>>
       ELSE <<grid_x1, grid_x2>>

\* dateline_intersection = grid_x2 >= global_grid_width
DatelineIntersection(cfg, grid_x2) == grid_x2 >= RoundDiv(Deg(360), cfg.spatial_res)

\* slice(i1, i2 + 1) if i1 < i2 else i1
Selector(i1, i2) ==
    IF i1 < i2 THEN [slice |-> TRUE, lo |-> i1, hi |-> i2 + 1]
    ELSE [slice |-> FALSE, lo |-> i1, hi |-> i1]

\* whether an index selects an element of a dimension of length n
PyIndexOk(n, i) == -n <= i /\ i < n

\* seq[i] of Python (0-based, negative indices count from the end)
PyIndex(seq, i) == seq[(IF i < 0 THEN i + Len(seq) ELSE i) + 1]

\* a slice bound clipped to a dimension of length n
PySliceBound(n, a) == IF a < 0 THEN Max(a + n, 0) ELSE Min(a, n)

\* seq[a:b] of Python
PySlice(seq, a, b) ==
    SubSeq(seq, PySliceBound(Len(seq), a) + 1, PySliceBound(Len(seq), b))

\* seq[sel]
Select(seq, sel) ==
    IF sel.slice THEN PySlice(seq, sel.lo, sel.hi) ELSE PyIndex(seq, sel.lo)

\* whether seq[sel] raises no IndexError for a dimension of length n
SelectOk(n, sel) == sel.slice \/ PyIndexOk(n, sel.lo)

\* image[ysel, xsel]
SubImage(image, ysel, xsel) ==
    LET rows == Select(image, ysel)
    IN IF ysel.slice THEN [k \in 1..Len(rows) |-> Select(rows[k], xsel)]
       ELSE Select(rows, xsel)

\* variable[tsel, ysel, xsel] on the records of a virtual view
SubArray(view, tsel, ysel, xsel) ==
    LET recs == Select(view, tsel)
    IN IF tsel.slice THEN [k \in 1..Len(recs) |-> SubImage(recs[k].image, ysel, xsel)]
       ELSE SubImage(recs.image, ysel, xsel)

\* whether variable[tsel, ysel, xsel] raises no IndexError
SubArrayOk(view, tsel, ysel, xsel) ==
    /\ SelectOk(Len(view), tsel)
    /\ Len(view) > 0 =>
         /\ SelectOk(Len(view[1].image), ysel)
         /\ SelectOk(Len(view[1].image[1]), xsel)

RECURSIVE ReadVariables(_, _, _, _, _, _)
\* the loop over var_indexes of CubeData.get on st = [data, result, error]:
\* it opens each variable's view and stops at the first error
ReadVariables(st, dsk, var_indexes, tsel, ysel, xsel) ==
    IF var_indexes = <<>> \/ st.error # "ok" THEN st
    ELSE LET d == GetOrOpenVariable(st.data, dsk, Head(var_indexes))
             view == d.datasets[Head(var_indexes) + 1][1]
             ok == SubArrayOk(view, tsel, ysel, xsel)
             next == [data |-> d,
                      result |-> IF ok
                                 THEN Append(st.result, SubArray(view, tsel, ysel, xsel))
                                 ELSE st.result,
                      error |-> IF ok THEN "ok" ELSE "IndexError"]
         IN ReadVariables(next, dsk, Tail(var_indexes), tsel, ysel, xsel)

\* CubeData.get: [data, result, error], the reader after the call, the list
\* returned and the error raised ("ok" for none). An error in the loop leaves
\* the call before `return result`: the views opened so far stay open, the
\* arrays read so far are not returned.
Get(d, dsk, cfg, variable, time, latitude, longitude) ==
    LET vi == GetVarIndices(d, variable)
        tr == GetTimeRange(time)
        lat == GetLatRange(latitude)
        lon == GetLonRange(longitude)
        tsel == Selector(TimeIndex(cfg, tr.range[1]), TimeIndex(cfg, tr.range[2]))
        rows == GridRows(cfg, lat.range[1], lat.range[2])
        cols == GridColumns(cfg, lon[1], lon[2])
        failed(e) == [data |-> d, result |-> <<>>, error |-> e]
    IN IF vi.error # "ok" THEN failed(vi.error)
       ELSE IF tr.error # "ok" THEN failed(tr.error)
       ELSE IF lat.error # "ok" THEN failed(lat.error)
       ELSE IF DatelineIntersection(cfg, cols[2])
       THEN failed(FormatError(longitude.form, Len(longitude.v)))
       ELSE LET read == ReadVariables([data |-> d, result |-> <<>>, error |-> "ok"],
                                      dsk, vi.indexes, tsel, Selector(rows[1], rows[2]),
                                      Selector(cols[1], cols[2]))
            IN IF read.error # "ok"
               THEN [data |-> read.data, result |-> <<>>, error |-> read.error]
               ELSE read

\* the records of all partition files of a variable
StoredRecords(dsk, var_name) ==
    UNION {{dsk[f].records[k] : k \in 1..Len(dsk[f].records)} :
              f \in {g \in DOMAIN dsk : g[1] = var_name}}

\* num2date: the datetime of a stored time value
num2date(cfg, x) == x + cfg.ref_time

\* the time arguments the model queries a variable with: for each stored
\* record its first day, its last day and its period as a pair
TimeArgs(dsk, cfg, var_name) ==
    UNION {{Scalar(num2date(cfg, r.start_time)), Scalar(num2date(cfg, r.end_time) - 1),
            ListPair(num2date(cfg, r.start_time), num2date(cfg, r.end_time))} :
              r \in StoredRecords(dsk, var_name)}

\* the variable arguments the model queries with: each name and each index
VariableArgs(d) ==
    {[tag |-> "name", v |-> d.names[i]] : i \in 1..Len(d.names)} \cup
    {[tag |-> "index", v |-> i - 1] : i \in 1..Len(d.names)}

\* the name a variable argument of VariableArgs stands for
ArgName(d, variable) == d.names[Resolved(d, variable) + 1]

\* the (latitude, longitude) arguments the model queries with: the full extent
\* of the cube, and the point (0, 0)
SpatialArgs(cfg) ==
    {<<ListPair(geo_bounds(cfg)[1][2], geo_bounds(cfg)[2][2]),
       ListPair(geo_bounds(cfg)[1][1], geo_bounds(cfg)[2][1])>>,
     <<Scalar(0), Scalar(0)>>}

\* a CubeData.get call
CubeDataGet ==
    /\ pc = "idle"
    /\ data # NoData
    /\ gets < MaxGets
    /\ gets' = gets + 1
    /\ \E variable \in VariableArgs(data) :
       \E time \in TimeArgs(disk, config, ArgName(data, variable)) :
       \E where \in SpatialArgs(config) :
         LET g == Get(data, disk, config, variable, time, where[1], where[2])
         IN /\ data' = g.data
            /\ outcome' = g.error
            /\ result' = [variable |-> variable, time |-> time, latitude |-> where[1],
                          longitude |-> where[2], value |-> g.result]
    /\ op' = "get"
    /\ UNCHANGED <<config, closed, disk, pc, provider, calls, target, target_year,
                   period, time_1, year_periods, datasets, handles, sessions>>

(***************************************************************************)
(* Queries on a written cube: CubeData.get with arguments of every form on *)
(* cubes of several grid layouts.                                          *)
(***************************************************************************)
\* a CubeConfig of the grid layout (spatial_res, grid_x0, grid_y0, grid_width,
\* grid_height) with the default temporal_res, ref_time, start_time and end_time
GridConfig(res, x0, y0, w, h) ==
    [spatial_res |-> res, grid_x0 |-> x0, grid_y0 |-> y0,
     grid_width |-> w, grid_height |-> h,
     temporal_res |-> 8, ref_time |-> 0,
     start_time |-> Some(0), end_time |-> Some(YearStart(2011))]

\* the grid layouts of the cubes that are queried: the globe at 90 degrees, its
\* eastern half (grid_x0 = 2), and a window of 4 x 2 cells at 45 degrees
\* (grid_x0 = 1, grid_y0 = 1)
QueryConfigs == {GridConfig(Deg(90), 0, 0, 4, 2),
                 GridConfig(Deg(90), 2, 0, 2, 2),
                 GridConfig(Deg(45), 1, 1, 4, 2)}

\* the mock provider for a cube of this layout: its images cover the whole grid
\* from 2001-01-01 to 2001-01-17
QueryProvider(cfg) ==
    [id |-> "jan", cover |-> <<0, 16>>,
     spatial |-> <<0, 0, cfg.grid_width, cfg.grid_height>>,
     descriptors |-> MockDescriptors, kind |-> "mock"]

RECURSIVE WritePeriods(_, _, _, _)
\* the writes of one Cube.update for the given periods, on st = [disk, datasets,
\* handles, calls, error]
WritePeriods(st, cfg, prov, periods) ==
    IF periods = <<>> THEN st
    ELSE LET p == Head(periods)
             images == compute_variable_images(cfg, prov, p[1], p[2], 0)
         IN WritePeriods(WriteImages(st, 1, cfg, prov, p, images.items),
                         cfg, prov, Tail(periods))

\* the partition files after Cube.create(cfg) and one update with QueryProvider
QueryDisk(cfg) ==
    WritePeriods([disk |-> <<>>, datasets |-> {}, handles |-> {}, calls |-> <<>>,
                  error |-> "ok"],
                 cfg, QueryProvider(cfg), <<<<0, 8>>, <<8, 16>>>>).disk

\* (latitude, longitude) of a point inside the cell at the upper left corner
\* of the grid
QueryPoint(cfg) ==
    <<northing(cfg) - cfg.spatial_res \div 4, easting(cfg) + cfg.spatial_res \div 4>>

\* a pair in both forms, as a tuple and as a list
Pairs(a, b) == {TuplePair(a, b), ListPair(a, b)}

\* variable arguments: known and unknown names, the empty name, indices in and
\* out of range, and lists and tuples of them
QueryVariables ==
    LET name(n) == [tag |-> "name", v |-> n]
        index(i) == [tag |-> "index", v |-> i]
        items == {<<>>, <<name("LAI")>>, <<name("FAPAR"), index(0)>>,
                  <<index(1), name("LAI")>>,
                  <<name("XYZ")>>, <<name("LAI"), name("XYZ")>>,
                  <<index(0), index(5)>>, <<index(2), name("FAPAR")>>}
    IN {name("LAI"), name("FAPAR"), name("XYZ"), name(""),
        index(0), index(1), index(2), index(-1)}
       \cup {[tag |-> form, v |-> seq] : form \in {"list", "tuple"}, seq \in items}

\* time arguments: scalars, pairs in order, a pair of equal times, pairs out
\* of order
QueryTimes ==
    {Scalar(0), Scalar(8)} \cup Pairs(0, 8) \cup Pairs(8, 8) \cup Pairs(8, 0)
    \cup Pairs(9, 1)

\* latitude arguments: a point of the grid, its extent, its edges, the poles,
\* pairs out of order and values beyond the poles
QueryLatitudes(cfg) ==
    LET lo == geo_bounds(cfg)[1][2]
        hi == geo_bounds(cfg)[2][2]
    IN {Scalar(QueryPoint(cfg)[1]), Scalar(lo), Scalar(hi),
        Scalar(Deg(90)), Scalar(-Deg(90)), Scalar(Deg(91)), Scalar(-Deg(91))}
       \cup Pairs(lo, hi) \cup Pairs(hi, lo) \cup Pairs(lo, lo)
       \cup Pairs(lo, Deg(91)) \cup Pairs(-Deg(100), hi) \cup Pairs(Deg(100), Deg(120))

\* longitude arguments: a point of the grid, its extent, its edges, and spans
\* up to, across and beyond the anti-meridian
QueryLongitudes(cfg) ==
    LET lo == geo_bounds(cfg)[1][1]
        hi == geo_bounds(cfg)[2][1]
    IN {Scalar(QueryPoint(cfg)[2]), Scalar(lo), Scalar(hi), Scalar(Deg(180))}
       \cup Pairs(lo, hi) \cup Pairs(Deg(170), -Deg(170)) \cup Pairs(Deg(170), Deg(190))
       \cup Pairs(Deg(100), -Deg(100)) \cup Pairs(Deg(90), Deg(180))
       \cup Pairs(Deg(45), -Deg(135)) \cup Pairs(-Deg(190), -Deg(170))

\* the argument tuples (variable, time, latitude, longitude) of the queries:
\* each argument takes every form while the others name a stored point; every
\* time and latitude argument is also combined with a span across the
\* anti-meridian, the edges and the extent in latitude with those in
\* longitude, and every variable argument with a time pair out of order, a
\* latitude beyond the pole and a span across the anti-meridian
QueryArgs(cfg) ==
    LET lat == Scalar(QueryPoint(cfg)[1])
        lon == Scalar(QueryPoint(cfg)[2])
        lai == [tag |-> "name", v |-> "LAI"]
        ll == geo_bounds(cfg)[1]
        ur == geo_bounds(cfg)[2]
        across == Pairs(Deg(170), -Deg(170))
    IN {<<v, Scalar(0), lat, lon>> : v \in QueryVariables}
       \cup {<<lai, t, lat, x>> : t \in QueryTimes, x \in {lon} \cup across}
       \cup {<<lai, Scalar(0), y, x>> : y \in QueryLatitudes(cfg), x \in {lon} \cup across}
       \cup {<<lai, Scalar(0), lat, x>> : x \in QueryLongitudes(cfg)}
       \cup {<<lai, Scalar(0), y, x>> :
                y \in {Scalar(ll[2]), Scalar(ur[2]), ListPair(ll[2], ur[2])},
                x \in {Scalar(ll[1]), Scalar(ur[1]), ListPair(ll[1], ur[1])}}
       \cup {<<v, [form |-> f, v |-> <<8, 0>>], Scalar(Deg(91)),
               [form |-> f, v |-> <<Deg(170), -Deg(170)>>]>> :
                v \in QueryVariables, f \in {"tuple", "list"}}

\* a CubeData.get call with one of the argument tuples of QueryArgs
CubeDataQuery ==
    /\ pc = "idle"
    /\ data # NoData
    /\ \E a \in QueryArgs(config) :
         LET g == Get(data, disk, config, a[1], a[2], a[3], a[4])
         IN /\ data' = g.data
            /\ outcome' = g.error
            /\ result' = [variable |-> a[1], time |-> a[2], latitude |-> a[3],
                          longitude |-> a[4], value |-> g.result]
    /\ op' = "query"
    /\ UNCHANGED <<config, closed, disk, pc, provider, calls, target, target_year,
                   period, time_1, year_periods, datasets, handles, sessions, gets>>

(***************************************************************************)
(* The range computations of CubeData.get on their own: the static method  *)
(* _get_lon_range, and the rows and columns a latitude and a longitude     *)
(* range select.                                                           *)
(***************************************************************************)
\* the grid layouts the ranges are computed for: the default global grid at
\* 0.25 degrees, a window of it (grid_x0 = 720, grid_y0 = 100), and global
\* grids at 1 degree and at 90 degrees
RangeConfigs == {GridConfig(1, 0, 0, 1440, 720),
                 GridConfig(1, 720, 100, 400, 300),
                 GridConfig(Deg(1), 0, 0, 360, 180),
                 GridConfig(Deg(90), 0, 0, 4, 2)}

\* longitude arguments of _get_lon_range: scalars and pairs, inside
\* [-180, 180], on its ends, and up to more than a full turn beyond them
LonRangeArgs ==
    LET values == {-Deg(370), -Deg(360), -Deg(190), -Deg(180), -Deg(170), -Deg(10),
                   0, Deg(10), Deg(170), Deg(180), Deg(190), Deg(360), Deg(370), Deg(540)}
    IN {Scalar(a) : a \in values} \cup {TuplePair(a, b) : a \in values, b \in values}

\* the latitudes that lie on grid lines of a layout
LatLines(cfg) ==
    {y \in {-Deg(90), -Deg(89), -Deg(45), 0, Deg(50), Deg(50) + 1, Deg(60),
            Deg(65), Deg(89), Deg(90)} : y % cfg.spatial_res = 0}

\* the longitudes that lie on grid lines of a layout
LonLines(cfg) ==
    {x \in {-Deg(180), -Deg(179), -Deg(90), 0, Deg(10), Deg(10) + 1, Deg(30),
            Deg(90), Deg(179), Deg(180)} : x % cfg.spatial_res = 0}

\* the (latitude pair, longitude pair) arguments the rows and columns are
\* computed for: every pair of latitudes on grid lines, as a tuple and as a
\* list, with longitude [10, 30] or [0, 180], and every pair of longitudes on
\* grid lines with latitude [50, 60] or [-90, 90]
GridRangeArgs(cfg) ==
    LET on(v) == v % cfg.spatial_res = 0
        lats == {<<Deg(50), Deg(60)>>, <<-Deg(90), Deg(90)>>}
        lons == {<<Deg(10), Deg(30)>>, <<0, Deg(180)>>}
    IN {<<[form |-> f, v |-> <<y1, y2>>], ListPair(x[1], x[2])>> :
            f \in {"tuple", "list"}, y1 \in LatLines(cfg), y2 \in LatLines(cfg),
            x \in {v \in lons : on(v[1]) /\ on(v[2])}}
       \cup {<<ListPair(y[1], y[2]), ListPair(x1, x2)>> :
                y \in {v \in lats : on(v[1]) /\ on(v[2])},
                x1 \in LonLines(cfg), x2 \in LonLines(cfg)}

\* a call of the static method CubeData._get_lon_range
GetLonRangeCall ==
    /\ pc = "idle"
    /\ \E longitude \in LonRangeArgs :
         result' = [NoResult EXCEPT !.longitude = longitude,
                                    !.value = GetLonRange(longitude)]
    /\ op' = "_get_lon_range"
    /\ outcome' = "ok"
    /\ UNCHANGED <<config, closed, disk, pc, provider, calls, target, target_year,
                   period, time_1, year_periods, datasets, handles, sessions, data, gets>>

\* the rows and columns CubeData.get computes for a latitude pair and a
\* longitude pair on grid lines: value = <<(grid_y1, grid_y2), (grid_x1, grid_x2)>>
GetGridRangeCall ==
    /\ pc = "idle"
    /\ \E a \in GridRangeArgs(config) :
         LET lat == GetLatRange(a[1])
             lon == GetLonRange(a[2])
         IN /\ outcome' = lat.error
            /\ result' = [NoResult EXCEPT
                            !.latitude = a[1],
                            !.longitude = a[2],
                            !.value = IF lat.error # "ok" THEN <<>>
                                      ELSE <<GridRows(config, lat.range[1], lat.range[2]),
                                             GridColumns(config, lon[1], lon[2])>>]
    /\ op' = "grid range"
    /\ UNCHANGED <<config, closed, disk, pc, provider, calls, target, target_year,
                   period, time_1, year_periods, datasets, handles, sessions, data, gets>>

(***************************************************************************)
(* The construction of a CubeConfig from grid parameters of every kind.    *)
(***************************************************************************)
\* the (spatial_res, grid_x0, grid_y0, grid_width, grid_height) tuples a
\* CubeConfig is constructed from: resolutions of 0, 60 and 90 degrees and of
\* -90 degrees, offsets from -1, sizes from 0, up to grids that end on and
\* beyond the poles and the anti-meridian
GridParameters ==
    {<<res, x0, y0, w, h>> :
        res \in {-Deg(90), 0, Deg(60), Deg(90)},
        x0 \in {-1, 0, 2}, y0 \in {-1, 0, 1},
        w \in {0, 2, 3}, h \in {0, 1, 2}}

\* CubeConfig(...) followed by Cube.create for the new configuration; a
\* configuration that is refused leaves the cube as it is
CubeConfigInit ==
    /\ pc = "idle"
    /\ \E a \in GridParameters :
         LET cfg == GridConfig(a[1], a[2], a[3], a[4], a[5])
         IN /\ outcome' = Validate(cfg)
            /\ IF Validate(cfg) = "ok"
               THEN /\ config' = cfg
                    /\ result' = [NoResult EXCEPT !.value = <<a, geo_bounds(cfg)>>]
               ELSE /\ UNCHANGED config
                    /\ result' = [NoResult EXCEPT !.value = <<a>>]
    /\ op' = "CubeConfig"
    /\ UNCHANGED <<closed, disk, pc, provider, calls, target, target_year,
                   period, time_1, year_periods, datasets, handles, sessions, data, gets>>

(***************************************************************************)
(* BaseCubeSourceProvider.                                                 *)
(***************************************************************************)
\* the sorted lists get_source_time_ranges returns: no source, one source,
\* adjacent sources, sources with a gap, months, a source across the new year
SourceRangeLists ==
    { <<>>,
      <<<<0, 8>>>>,
      <<<<0, 8>>, <<8, 16>>>>,
      <<<<0, 16>>, <<16, 32>>, <<32, 48>>>>,
      <<<<4, 12>>, <<20, 28>>>>,
      <<<<0, 31>>, <<31, 59>>>>,
      <<<<360, 368>>>> }

\* the target periods compute_variable_images is called with
TargetPeriods ==
    {<<8 * k, 8 * k + 8>> : k \in 0..5} \cup {<<4, 6>>, <<12, 20>>, <<360, 365>>}

\* BaseCubeSourceProvider.get_temporal_coverage, for a list that is not empty
get_temporal_coverage(ranges) == <<ranges[1][1], ranges[Len(ranges)][2]>>

\* a subclass of BaseCubeSourceProvider with the given source time ranges
BaseProvider(cfg, ranges) ==
    [id |-> "base",
     cover |-> IF Len(ranges) = 0 THEN <<0, 0>> ELSE get_temporal_coverage(ranges),
     spatial |-> <<0, 0, cfg.grid_width, cfg.grid_height>>,
     descriptors |-> MockDescriptors, kind |-> "base", ranges |-> ranges]

\* a dict with an entry for every source, also those of weight 0
IndexToWeightAll(ranges, s, e) ==
    [i \in 0..(Len(ranges) - 1) |->
        <<overlap(ranges[i + 1][1], ranges[i + 1][2], s, e),
          ranges[i + 1][2] - ranges[i + 1][1]>>]

\* the index_to_weight dict: source index (from 0) --> weight, the weight as
\* (overlap, source duration), for the sources of positive weight
IndexToWeight(ranges, s, e) ==
    [i \in {j \in 0..(Len(ranges) - 1) :
              temporal_weight_positive(ranges[j + 1][1], ranges[j + 1][2], s, e)} |->
        <<overlap(ranges[i + 1][1], ranges[i + 1][2], s, e),
          ranges[i + 1][2] - ranges[i + 1][1]>>]

\* what the subclass's compute_variable_images_from_sources may return:
\* None, an empty dict or a {name: image} dict
FromSources(cfg, prov, index_to_weight, s) ==
    { [kind |-> "None", items |-> <<>>],
      [kind |-> "dict", items |-> <<>>],
      [kind |-> "dict",
       items |-> [i \in 1..Len(VarNames) |-> <<VarNames[i], Image(cfg, prov, VarNames[i], s)>>]] }

\* BaseCubeSourceProvider.compute_variable_images(s, e), the subclass method
\* answering `answer` if it is called: whether it was called, what was returned
\* and the error raised
BaseComputeVariableImages(ranges, s, e, answer) ==
    LET index_to_weight == IndexToWeight(ranges, s, e)
        none == [kind |-> "None", items |-> <<>>]
    IN IF Len(ranges) = 0
       THEN [delegated |-> FALSE, returned |-> none, error |-> "ok"]
       ELSE IF DOMAIN index_to_weight = {}
       THEN [delegated |-> FALSE, returned |-> none, error |-> "ok"]
       \* result.keys() of the log message
       ELSE IF answer.kind = "None"
       THEN [delegated |-> TRUE, returned |-> [kind |-> "raise", items |-> <<>>],
             error |-> "AttributeError"]
       ELSE [delegated |-> TRUE, returned |-> answer, error |-> "ok"]

\* a call of compute_variable_images on the provider
BaseProviderCompute ==
    /\ pc = "idle"
    /\ provider.kind = "base"
    /\ \E p \in TargetPeriods :
         LET index_to_weight == IndexToWeight(provider.ranges, p[1], p[2])
         IN \E answer \in FromSources(config, provider, index_to_weight, p[1]) :
              LET r == BaseComputeVariableImages(provider.ranges, p[1], p[2], answer)
              IN /\ outcome' = r.error
                 /\ result' = [NoResult EXCEPT
                       !.time = p,
                       !.value = [delegated |-> r.delegated,
                                  index_to_weight |-> index_to_weight,
                                  answer |-> IF r.delegated THEN answer
                                             ELSE [kind |-> "not called", items |-> <<>>],
                                  returned |-> r.returned]]
    /\ op' = "compute_variable_images"
    /\ UNCHANGED <<config, closed, disk, pc, provider, calls, target, target_year,
                   period, time_1, year_periods, datasets, handles, sessions, data, gets>>

(***************************************************************************)
(* The specification.                                                      *)
(***************************************************************************)
\* Cube.create(base_dir, config): an open cube over an empty directory
Init ==
    /\ \E c \in ConfigChoices : config = CubeConfig(c[1], c[2], c[3])
    /\ closed = FALSE
    /\ disk = <<>>
    /\ pc = "idle"
    /\ provider = NoProvider
    /\ calls = <<>>
    /\ target = <<0, 0>>
    /\ target_year = RefYear
    /\ period = 0
    /\ time_1 = 0
    /\ year_periods = <<>>
    /\ datasets = {}
    /\ handles = {}
    /\ sessions = 0
    /\ op = "create"
    /\ outcome = "ok"
    /\ data = NoData
    /\ result = NoResult
    /\ gets = 0

\* the writer alone: no reader is ever created
NextWriter ==
    \/ UpdateClosed
    \/ UpdateBegin
    \/ UpdatePeriod
    \/ UpdateNextYear
    \/ UpdateCloseDatasets
    \/ UpdateProviderClose
    \/ CubeClose
    \/ CubeOpen

SpecWriter == Init /\ [][NextWriter]_vars

\* the writer and the reader
Next ==
    \/ UpdateClosed
    \/ UpdateBegin
    \/ UpdatePeriod
    \/ UpdateNextYear
    \/ UpdateCloseDatasets
    \/ UpdateProviderClose
    \/ CubeDataOpen
    \/ CubeDataGetVariable
    \/ CubeDataGet
    \/ CubeDataClose
    \/ CubeClose
    \/ CubeOpen

Spec == Init /\ [][Next]_vars

\* the state of a cube opened on a directory, before any call is made on it
Opened(cfg, dsk) ==
    /\ config = cfg
    /\ disk = dsk
    /\ closed = FALSE
    /\ pc = "idle"
    /\ provider = NoProvider
    /\ calls = <<>>
    /\ target = <<0, 0>>
    /\ target_year = RefYear
    /\ period = 0
    /\ time_1 = 0
    /\ year_periods = <<>>
    /\ datasets = {}
    /\ handles = {}
    /\ sessions = 0
    /\ outcome = "ok"
    /\ data = NoData
    /\ result = NoResult
    /\ gets = 0

\* Cube.open on the directory of a cube that one update has written
InitQuery ==
    /\ \E cfg \in QueryConfigs : Opened(cfg, QueryDisk(cfg))
    /\ op = "open"

\* the reader of a written cube
NextQuery ==
    \/ CubeDataOpen
    \/ CubeDataQuery
    \/ CubeDataClose

SpecQuery == InitQuery /\ [][NextQuery]_vars

\* a cube of one of the layouts of RangeConfigs, just created
InitRanges ==
    /\ \E cfg \in RangeConfigs : Opened(cfg, <<>>)
    /\ op = "create"

\* the range computations
NextRanges ==
    \/ GetLonRangeCall
    \/ GetGridRangeCall

SpecRanges == InitRanges /\ [][NextRanges]_vars

\* a cube of the default grid layout, just created
InitConfig ==
    /\ Opened(GridConfig(1, 0, 0, 1440, 720), <<>>)
    /\ op = "create"

\* the construction of configurations
NextConfig == CubeConfigInit

SpecConfig == InitConfig /\ [][NextConfig]_vars

\* a prepared provider with one of the source lists, before any request
InitProvider ==
    /\ \E ranges \in SourceRangeLists :
         /\ config = GridConfig(Deg(90), 0, 0, 4, 2)
         /\ provider = BaseProvider(config, ranges)
    /\ disk = <<>>
    /\ closed = FALSE
    /\ pc = "idle"
    /\ calls = <<>>
    /\ target = <<0, 0>>
    /\ target_year = RefYear
    /\ period = 0
    /\ time_1 = 0
    /\ year_periods = <<>>
    /\ datasets = {}
    /\ handles = {}
    /\ sessions = 0
    /\ outcome = "ok"
    /\ data = NoData
    /\ result = NoResult
    /\ gets = 0
    /\ op = "prepare"

\* the image requests to the provider
NextProvider == BaseProviderCompute

SpecProvider == InitProvider /\ [][NextProvider]_vars

(***************************************************************************)
(* The claims.                                                             *)
(***************************************************************************)
\* a Cube.update call was made on the provider and got past the closed check
UpdateRan == calls # <<>>

\* the running or last update ended with an error raised inside its loop
UpdateAborted == UpdateRan /\ pc = "idle" /\ calls[Len(calls)] # <<"close">>

\* the running or last update returned normally
UpdateCompleted == UpdateRan /\ pc = "idle" /\ calls[Len(calls)] = <<"close">>

\* C1: a Cube.update call on a closed cube (Cube.close has set the closed
\* flag) raises IOError, calls no provider method, and creates or changes no
\* partition and opens no partition handle.
C1_UpdateOnClosedFails ==
    [][(closed /\ sessions' = sessions + 1) =>
          /\ outcome' = "IOError"
          /\ calls' = <<>>
          /\ disk' = disk
          /\ handles' = handles
          /\ pc' = "idle"]_vars

\* C1 witness: a cube that was updated and then closed has refused an update
C1_Witness ==
    /\ op = "update" /\ outcome = "IOError" /\ closed
    /\ DOMAIN disk # {} /\ calls = <<>>

\* the effective window: the provider's coverage intersected with the
\* config's start_time and end_time
EffectiveWindow ==
    <<IF config.start_time = None THEN provider.cover[1]
      ELSE Max(provider.cover[1], config.start_time[1]),
      IF config.end_time = None THEN provider.cover[2]
      ELSE Min(provider.cover[2], config.end_time[1])>>

\* period number k (from 0) of a year: temporal_res days from day k * temporal_res
\* of the year, cut at the next 1 January
PeriodOfYear(year, k) ==
    <<YearStart(year) + k * config.temporal_res,
      Min(YearStart(year) + (k + 1) * config.temporal_res, YearStart(year + 1))>>

\* a period and a window share at least one instant
Overlaps(p, w) == Max(p[1], w[1]) < Min(p[2], w[2])

\* the loop of the running or last update has dealt with period k of year y
Reached(y, k) ==
    \/ y < target_year
    \/ y = target_year /\ k < period
    \/ y = target_year /\ k = period /\ UpdateAborted

\* the compute_variable_images calls due for the periods from period k of
\* year y on that the loop has dealt with, in chronological order
ExpectedCalls(y, k) ==
    LET n == NumPeriodsPerYear(config)
        \* the periods from (y, k) on, numbered from 1 through the years
        nth(i) == PeriodOfYear(y + (k + i - 1) \div n, (k + i - 1) % n)
        reached == {i \in 1..((target_year - y + 1) * n - k) :
                       Reached(y + (k + i - 1) \div n, (k + i - 1) % n)}
        all == [i \in 1..Cardinality(reached) |->
                   <<"compute_variable_images", nth(i)[1], nth(i)[2]>>]
    IN SelectSeq(all, LAMBDA c : Overlaps(<<c[2], c[3]>>, EffectiveWindow))

\* C2: the compute_variable_images calls of an update are, in chronological
\* order, exactly one call for each period the loop has generated that overlaps
\* the effective window, and none for any other period; with temporal_res = 8
\* and the window [2001-01-01, 2001-02-01) a completed update made exactly the
\* calls (01-01, 01-09), (01-09, 01-17), (01-17, 01-25), (01-25, 02-02).
C2_ComputeCalls ==
    UpdateRan =>
      /\ ComputeCalls(calls) = ExpectedCalls(YearOf(EffectiveWindow[1]), 0)
      /\ (UpdateCompleted /\ config.temporal_res = 8 /\ EffectiveWindow = <<0, 31>>) =>
            ComputeCalls(calls) = <<<<"compute_variable_images", 0, 8>>,
                                    <<"compute_variable_images", 8, 16>>,
                                    <<"compute_variable_images", 16, 24>>,
                                    <<"compute_variable_images", 24, 32>>>>

\* C2 witness: a completed update with 8-day periods over the window
\* [2001-01-01, 2001-02-01) that made four calls
C2_Witness ==
    /\ UpdateCompleted /\ config.temporal_res = 8 /\ EffectiveWindow = <<0, 31>>
    /\ Len(ComputeCalls(calls)) = 4

\* the loop over the periods of target_year has made all its periods
YearDone == UpdateRan /\ pc = "period" /\ period = NumPeriodsPerYear(config)

\* the days of a period [start, end)
DaysOf(p) == p[1]..(p[2] - 1)

\* C3: the periods generated for a calendar year are pairwise non-overlapping
\* half-open intervals whose union is exactly the year, from its 1 January up
\* to the next 1 January, for leap and non-leap years.
C3_PeriodsCoverYear ==
    YearDone =>
      /\ \A i, j \in 1..Len(year_periods) :
            i # j => DaysOf(year_periods[i]) \cap DaysOf(year_periods[j]) = {}
      /\ UNION {DaysOf(year_periods[i]) : i \in 1..Len(year_periods)} =
            YearStart(target_year)..(YearStart(target_year + 1) - 1)

\* the partition handles the running or last update has opened and not closed
SessionHandles == {h \in handles : h[1] = sessions}

\* C6: when Cube.update has terminated, normally or with an error raised by
\* the provider or by a partition write, every partition handle opened during
\* that update is closed.
C6_HandlesClosedAtExit ==
    (UpdateRan /\ pc = "idle") => SessionHandles = {}

\* a sequence is a prefix of another
IsPrefix(a, b) == Len(a) <= Len(b) /\ SubSeq(b, 1, Len(a)) = a

\* C8: every step of an update leaves each partition's records in place and
\* appends at most one record at the end, at index i = the length before; a
\* partition never shrinks and no stored record is changed or removed, also
\* when the update ends in an error; a new partition starts with one record.
C8_AppendOnly ==
    [][/\ \A f \in DOMAIN disk :
            /\ f \in DOMAIN disk'
            /\ IsPrefix(disk[f].records, disk'[f].records)
            /\ Len(disk'[f].records) <= Len(disk[f].records) + 1
       /\ \A f \in (DOMAIN disk') \ (DOMAIN disk) : Len(disk'[f].records) = 1]_vars

\* the provider whose image a stored record holds ("fill" for a fill image)
RecordSource(rec) == rec.image[1][1][1]

\* C8 witness: after a session that ended in an error, a second session has
\* appended to a partition that held records before
C8_Witness ==
    /\ sessions = 2 /\ UpdateCompleted
    /\ \E h \in handles : h[1] = 1
    /\ \E f \in DOMAIN disk :
          /\ Len(disk[f].records) >= 2
          /\ RecordSource(disk[f].records[1]) = "flaky"
          /\ RecordSource(disk[f].records[Len(disk[f].records)]) = provider.id
          /\ provider.id # "flaky"

\* C9: a step never changes the schema of a partition that exists, whatever
\* the spatial coverage and the descriptors of the provider of the update; the
\* schema of a new partition is the one derived from the provider that
\* created it.
C9_SchemaFixed ==
    [][/\ \A f \in DOMAIN disk : f \in DOMAIN disk' /\ disk'[f].schema = disk[f].schema
       /\ \A f \in (DOMAIN disk') \ (DOMAIN disk) :
            disk'[f].schema = InitVariableDataset(config, provider, f[1])]_vars

\* C9 witness: a provider with another spatial coverage and other descriptors
\* has appended a record to a partition created by an earlier session
C9_Witness ==
    /\ provider.id = "window"
    /\ \E f \in DOMAIN disk :
          /\ disk[f].schema # InitVariableDataset(config, provider, f[1])
          /\ Len(disk[f].records) >= 2
          /\ RecordSource(disk[f].records[Len(disk[f].records)]) = "window"

\* the number of calls of a provider method in a trace
CountCalls(trace, method) == Len(SelectSeq(trace, LAMBDA c : c[1] = method))

\* C10: provider.prepare is the first provider call of an update and is called
\* once; provider.close is called at most once, as the last call, and exactly
\* once when the update returns normally; when provider.close is about to be
\* called or has been called, every partition opened in the session is closed.
C10_CallOrder ==
    UpdateRan =>
      /\ calls[1] = <<"prepare">>
      /\ CountCalls(calls, "prepare") = 1
      /\ \A i \in 1..Len(calls) : calls[i] = <<"close">> => i = Len(calls)
      /\ (pc = "idle" /\ op = "update" /\ outcome = "ok") =>
            CountCalls(calls, "close") = 1
      /\ (pc = "provider_close" \/ CountCalls(calls, "close") > 0) =>
            SessionHandles = {}

\* C10 witness: an update that wrote to partitions has returned normally
C10_Witness ==
    /\ UpdateCompleted /\ op = "update" /\ outcome = "ok"
    /\ datasets # {} /\ Len(ComputeCalls(calls)) >= 2
    /\ CountCalls(calls, "close") = 1

\* no update has ended in an error: none has left a partition handle open
NoUpdateFailed == handles = {}

\* the last call was a CubeData.get that resolved its variable argument, on a
\* cube none of whose updates has ended in an error
GetMade ==
    /\ op = "get" /\ outcome # "ValueError" /\ outcome # "TypeError"
    /\ NoUpdateFailed

\* the variable the last CubeData.get asked for
GetName == ArgName(data, result.variable)

\* the records a new virtual view of a variable holds: its partitions in the
\* order of their years, one after the other
ViewRecords(var_name) == Concat(disk, DatasetFiles(disk, var_name))

\* C4: a CubeData.get for a variable with time = (s, e), the period of a
\* record an update has written for it, and the full latitude and longitude
\* extent returns the image of that record, unchanged, for a period of any
\* year.
C4_QueryRoundTrip ==
    (/\ GetMade /\ Len(result.time.v) = 2
     /\ Len(result.latitude.v) = 2 /\ Len(result.longitude.v) = 2
     /\ \E r \in StoredRecords(disk, GetName) :
           /\ RecordSource(r) # "fill"
           /\ <<num2date(config, r.start_time), num2date(config, r.end_time)>> = result.time.v)
    => /\ outcome = "ok"
       /\ \E r \in StoredRecords(disk, GetName) :
             /\ <<num2date(config, r.start_time), num2date(config, r.end_time)>> = result.time.v
             /\ \/ result.value = <<r.image>>
                \/ result.value = <<<<r.image>>>>

\* C5: a CubeData.get with a scalar time t inside the period of a stored
\* record reads that record: the time index floor((t - ref_time) /
\* temporal_res) is the place of a record of the variable's year-ordered
\* partitions whose period holds t.
C5_TimeIndexIsPosition ==
    (GetMade /\ Len(result.time.v) = 1) =>
        LET i == TimeIndex(config, result.time.v[1])
            view == ViewRecords(GetName)
        IN /\ 0 <= i /\ i < Len(view)
           /\ num2date(config, view[i + 1].start_time) <= result.time.v[1]
           /\ result.time.v[1] < num2date(config, view[i + 1].end_time)

\* C7: CubeData.close, and Cube.close when a reader exists, raise no error
\* and leave no virtual view open, whichever variables were accessed before;
\* after Cube.close the closed flag is set.
C7_CloseReleasesViews ==
    ((op = "close" \/ op = "data.close") /\ NoUpdateFailed) =>
        /\ outcome = "ok"
        /\ OpenViews(data) = {}
        /\ op = "close" => closed

\* the last call was a CubeData.get of the query specification
QueryMade == op = "query"

\* whether every entry of a variable argument is a known name or a known index
AllResolve(d, variable) ==
    IF variable.tag \in {"list", "tuple"}
    THEN \A k \in 1..Len(variable.v) : Resolves(d, variable.v[k])
    ELSE Resolves(d, variable)

\* C11: CubeData.get raises ValueError for every variable argument with an
\* entry that is neither a known name nor a known index, passed alone or
\* inside an iterable, and accepts every argument (a name, an index, an
\* iterable of both) all of whose entries are known: with the time and the
\* place of a stored point it returns one array for each entry.
C11_VariableArgument ==
    QueryMade =>
        IF AllResolve(data, result.variable)
        THEN (/\ result.time = Scalar(0)
              /\ result.latitude = Scalar(QueryPoint(config)[1])
              /\ result.longitude = Scalar(QueryPoint(config)[2])) =>
                /\ outcome = "ok"
                /\ Len(result.value) = (IF result.variable.tag \in {"list", "tuple"}
                                        THEN Len(result.variable.v) ELSE 1)
        ELSE outcome = "ValueError"


\* the upper column of a longitude span in the global grid, as CubeData.get
\* computes it, and the width of the global grid
GlobalUpperColumn(cfg, longitude) ==
    LET lon == GetLonRange(longitude)
    IN GridColumns(cfg, lon[1], lon[2])[2] + cfg.grid_x0

\* a longitude span that crosses the anti-meridian: its upper column in the
\* global grid is at or beyond the width of the global grid
CrossesAntimeridian(cfg, longitude) ==
    /\ Len(longitude.v) = 2
    /\ GlobalUpperColumn(cfg, longitude) >= RoundDiv(Deg(360), cfg.spatial_res)

\* C12: a CubeData.get with valid variable, time and latitude arguments whose
\* longitude span crosses the anti-meridian raises the error of the
\* unimplemented case (ValueError) and opens no view and reads no data, on
\* every grid layout.
C12_AntimeridianRejected ==
    [][(/\ op' = "query"
        /\ AllResolve(data', result'.variable)
        /\ GetTimeRange(result'.time).error = "ok"
        /\ GetLatRange(result'.latitude).error = "ok"
        /\ CrossesAntimeridian(config, result'.longitude))
       => (outcome' = "ValueError" /\ data' = data)]_vars

\* the value in [-180, 180) congruent to x modulo 360
Normalized(x) == ((x + Deg(180)) % Deg(360)) - Deg(180)

\* C13: _get_lon_range maps each endpoint to the value in [-180, 180) that is
\* congruent to it modulo 360, and increases the upper one by 360 when the
\* lower one is greater after that; a scalar is both endpoints.
C13_LongitudeNormalized ==
    op = "_get_lon_range" =>
        LET a == Unpack(result.longitude)[1]
            b == Unpack(result.longitude)[2]
            lo == Normalized(a)
            hi == Normalized(b)
        IN result.value = <<lo, IF lo > hi THEN hi + Deg(360) ELSE hi>>

\* C14: for a latitude range and a longitude range [lo, hi] with lo < hi, on
\* grid lines, the rows and columns CubeData.get computes are the (hi - lo) /
\* spatial_res cells between the bounds: from the cell that begins at one
\* bound up to, and without, the cell that begins at the other; at 0.25
\* degrees latitude [50, 60] and longitude [10, 30] give rows 120..159 and
\* columns 760..839, and longitude [0, 180] ends at column 1439.
C14_GridRangeCells ==
    (/\ op = "grid range" /\ outcome = "ok"
     /\ result.latitude.v[1] < result.latitude.v[2]
     /\ result.longitude.v[1] < result.longitude.v[2]) =>
        LET res == config.spatial_res
            rows == result.value[1]
            cols == result.value[2]
        IN /\ rows[1] = (Deg(90) - result.latitude.v[2]) \div res - config.grid_y0
           /\ rows[2] - rows[1] + 1 = (result.latitude.v[2] - result.latitude.v[1]) \div res
           /\ cols[1] = (Deg(180) + result.longitude.v[1]) \div res - config.grid_x0
           /\ cols[2] - cols[1] + 1 = (result.longitude.v[2] - result.longitude.v[1]) \div res
           /\ (config = GridConfig(1, 0, 0, 1440, 720) /\ result.latitude.v = <<Deg(50), Deg(60)>>
                  /\ result.longitude.v = <<Deg(10), Deg(30)>>)
              => (rows = <<120, 159>> /\ cols = <<760, 839>>)
           /\ (config = GridConfig(1, 0, 0, 1440, 720) /\ result.longitude.v[2] = Deg(180))
              => cols[2] = 1439

\* the rows and columns of the example of C14 have been computed: 40 rows and
\* 80 columns
C14_Witness ==
    /\ op = "grid range" /\ outcome = "ok"
    /\ config = GridConfig(1, 0, 0, 1440, 720)
    /\ result.latitude = ListPair(Deg(50), Deg(60))
    /\ result.longitude = ListPair(Deg(10), Deg(30))
    /\ result.value[1][2] - result.value[1][1] + 1 = 40
    /\ result.value[2][2] - result.value[2][1] + 1 = 80

\* C15: the periods Cube.update generates for a year start at its 1 January,
\* each begins where the previous one ends and is temporal_res days long
\* unless that would pass the next 1 January, where it is clipped; there are
\* ceil(365 / temporal_res) of them, 46 for temporal_res = 8, the last of a
\* non-leap year ending at the next 1 January.
C15_PeriodsOfYear ==
    (UpdateRan /\ pc = "period") =>
        LET n == Len(year_periods)
            res == config.temporal_res
            year_end == YearStart(target_year + 1)
        IN /\ n = period
           /\ n <= (365 + res - 1) \div res
           /\ YearDone => n = (365 + res - 1) \div res
           /\ \A i \in 1..n :
                /\ year_periods[i][1] =
                      (IF i = 1 THEN YearStart(target_year) ELSE year_periods[i - 1][2])
                /\ year_periods[i][2] =
                      (IF year_periods[i][1] + res > year_end THEN year_end
                       ELSE year_periods[i][1] + res)
                /\ year_periods[i][1] < year_periods[i][2]
           /\ (YearDone /\ res = 8 /\ ~IsLeap(target_year)) =>
                 (n = 46 /\ year_periods[n][2] = year_end)

\* all periods of a non-leap year have been generated at temporal_res = 8: 46,
\* the last one clipped to five days
C15_Witness ==
    /\ YearDone /\ config.temporal_res = 8 /\ ~IsLeap(target_year)
    /\ Len(year_periods) = 46
    /\ year_periods[46] = <<YearStart(target_year) + 360, YearStart(target_year + 1)>>

\* the records the running or last update, made with a mock provider, has
\* written to a partition file: one for each compute_variable_images call for
\* a period of the file's year
OwnRecords(file) ==
    LET mine == SelectSeq(ComputeCalls(calls), LAMBDA c : YearOf(c[2]) = file[2])
    IN [k \in 1..Len(mine) |->
          [start_time |-> date2num(config, mine[k][2]),
           end_time |-> date2num(config, mine[k][3]),
           image |-> Image(config, provider, file[1], mine[k][2])]]

\* C16: an update that runs over periods an earlier update with the same
\* deterministic provider has written appends a second copy of every record:
\* the earlier records stay, the same records follow them, and the partition
\* is twice as long (a multiple of one update's records).
C16_DuplicateAppends ==
    (UpdateCompleted /\ provider.kind = "mock") =>
        \A f \in datasets :
            LET own == OwnRecords(f)
                recs == disk[f].records
                n == Len(own)
                m == Len(recs)
            IN /\ n > 0 /\ m >= n
               /\ SubSeq(recs, m - n + 1, m) = own
               /\ (m > n /\ \A k \in 1..(m - n) : RecordSource(recs[k]) = provider.id) =>
                     /\ m % n = 0
                     /\ m >= 2 * n
                     /\ SubSeq(recs, m - 2 * n + 1, m - n) = own
                     /\ (sessions = 2 => m = 2 * n)

\* the second of two updates with the mock provider of January 2001 has
\* completed and a partition holds every record twice
C16_Witness ==
    /\ UpdateCompleted /\ sessions = 2 /\ provider.id = "jan"
    /\ \E f \in datasets :
          LET recs == disk[f].records
              n == Len(OwnRecords(f))
          IN /\ n > 1 /\ Len(recs) = 2 * n
             /\ \A k \in 1..n : recs[k] = recs[n + k]

\* the place of a variable name in ascending name order
NameRank(name) == IF name = "FAPAR" THEN 0 ELSE IF name = "LAI" THEN 1 ELSE 2

\* C17: the reader's mapping between variable names and indices is a bijection
\* onto 0..n-1 over the subdirectories of data/ that follows ascending name
\* order whatever order the directory listing has: FAPAR is 0 and LAI is 1.
C17_NameIndexOrder ==
    data # NoData =>
        /\ {data.names[i] : i \in 1..Len(data.names)} = VarDirs(disk)
        /\ \A i, j \in 1..Len(data.names) : i # j => data.names[i] # data.names[j]
        /\ \A i, j \in 1..Len(data.names) :
              i < j => NameRank(data.names[i]) < NameRank(data.names[j])
        /\ NameIndex(data, "FAPAR") = 0 /\ NameIndex(data, "LAI") = 1

\* a scalar argument as the pair of its value with itself
AsPair(arg) == IF arg.form = "scalar" THEN ListPair(arg.v[1], arg.v[1]) ELSE arg

\* C18: CubeData.get raises ValueError when the time pair has lo > hi, or
\* when the latitude pair has lo > hi or an endpoint outside [-90, 90], and
\* for no other time or latitude argument; a scalar time or latitude is
\* handled as the range [v, v].
C18_TimeLatitudeChecked ==
    (QueryMade /\ AllResolve(data, result.variable)) =>
        LET t == Unpack(result.time)
            y == Unpack(result.latitude)
            lon == GetLonRange(result.longitude)
            bad == \/ t[1] > t[2]
                   \/ y[1] > y[2]
                   \/ y[1] < -Deg(90) \/ y[1] > Deg(90)
                   \/ y[2] < -Deg(90) \/ y[2] > Deg(90)
            dateline == DatelineIntersection(config,
                                             GridColumns(config, lon[1], lon[2])[2])
            paired == Get(data, disk, config, result.variable, AsPair(result.time),
                          AsPair(result.latitude), result.longitude)
        IN /\ bad => (outcome = "ValueError" /\ result.value = <<>>)
           /\ (~bad /\ ~dateline) => outcome # "ValueError"
           /\ (paired.error = outcome /\ paired.result = result.value)

\* C19: the construction of a CubeConfig raises ValueError exactly when
\* grid_x0 < 0, grid_y0 < 0, or the derived latitude or longitude interval is
\* degenerate (lo >= hi) or extends beyond [-90, 90] or [-180, 180]; intervals
\* that end on -90, 90, -180 or 180 are accepted; geo_bounds of an accepted
\* configuration is ((lon lo, lat lo), (lon hi, lat hi)) of those intervals.
C19_ConfigValidated ==
    op = "CubeConfig" =>
        LET a == result.value[1]
            res == a[1]
            lat_lo == Deg(90) - (a[3] + a[5]) * res
            lat_hi == Deg(90) - a[3] * res
            lon_lo == -Deg(180) + a[2] * res
            lon_hi == -Deg(180) + (a[2] + a[4]) * res
            refused == \/ a[2] < 0 \/ a[3] < 0
                       \/ lat_lo >= lat_hi \/ lat_lo < -Deg(90) \/ lat_hi > Deg(90)
                       \/ lon_lo >= lon_hi \/ lon_lo < -Deg(180) \/ lon_hi > Deg(180)
        IN /\ outcome = (IF refused THEN "ValueError" ELSE "ok")
           /\ outcome = "ok" =>
                /\ config = GridConfig(a[1], a[2], a[3], a[4], a[5])
                /\ result.value[2] = <<<<lon_lo, lat_lo>>, <<lon_hi, lat_hi>>>>
                /\ geo_bounds(config) = result.value[2]

\* a configuration whose intervals end exactly on a pole and on the
\* anti-meridian has been accepted: the south-eastern quarter of the globe
C19_Witness ==
    /\ op = "CubeConfig" /\ outcome = "ok"
    /\ result.value[1] = <<Deg(90), 2, 1, 2, 1>>
    /\ geo_bounds(config) = <<<<0, -Deg(90)>>, <<Deg(180), 0>>>>

\* C20: when at least one source range overlaps the target period,
\* BaseCubeSourceProvider.compute_variable_images returns exactly what
\* compute_variable_images_from_sources returned, a {name: image} dict or None,
\* and raises nothing.
C20_DelegatedResultReturned ==
    (op = "compute_variable_images" /\ result.value.delegated) =>
        /\ outcome = "ok"
        /\ result.value.returned = result.value.answer

\* the partitions a step has created or changed
Written == {f \in DOMAIN disk' : f \notin DOMAIN disk \/ disk'[f] # disk[f]}

\* the variables for which the provider returns an image for the period of
\* the next pass of the loop
ImagesDue ==
    LET images == compute_variable_images(config, provider, time_1,
                                          Time2(config, target_year, time_1),
                                          Len(ComputeCalls(calls)))
    IN IF images.kind # "dict" THEN {}
       ELSE {images.items[i][1] : i \in {j \in 1..Len(images.items) :
                                            images.items[j][2] # None}}

\* C21: a step of an update writes only partitions <v, Y> of the year Y in
\* which the period starts and of variables v the provider returned an image
\* for, and each of them grows by one record of that period; a partition is
\* opened by the step only when the session has not opened it before, so that
\* a session never makes a second handle for a partition and later writes go
\* through the first one, and the open partitions of a running session are
\* those it has a handle for; a
\* partition gets its schema initialised (with the provider's coverage and
\* descriptors queried) exactly when its file did not exist; every other
\* partition keeps its content and gets no handle; a pass without an error
\* writes all the images due.
C21_PartitionPerYearAndVariable ==
    [][/\ (pc \in {"period", "close_datasets"} /\ UpdateRan) =>
             datasets = {h[2] : h \in SessionHandles}
       /\ \A f \in DOMAIN disk : f \in DOMAIN disk'
       /\ Written # {} => pc = "period" /\ calls' # calls
       /\ \A f \in Written :
            /\ f[2] = YearOf(time_1)
            /\ f[1] \in ImagesDue
            /\ LET before == IF f \in DOMAIN disk THEN disk[f].records ELSE <<>>
                   after == disk'[f].records
               IN /\ Len(after) = Len(before) + 1
                  /\ SubSeq(after, 1, Len(before)) = before
                  /\ after[Len(after)].start_time = date2num(config, time_1)
            /\ IF f \in DOMAIN disk
               THEN disk'[f].schema = disk[f].schema
               ELSE disk'[f].schema = InitVariableDataset(config, provider, f[1])
       /\ pc = "period" =>
            /\ handles' \ handles = {<<sessions, f, 1>> : f \in Written \ datasets}
            /\ \A f \in Written : OpenCount(handles', sessions, f) = 1
            /\ handles \subseteq handles'
            /\ datasets' = datasets \cup Written
            /\ calls' # calls =>
                 Len(calls') = Len(calls) + 1
                               + Len(InitCalls) * Cardinality(Written \ DOMAIN disk)
            /\ (calls' # calls /\ outcome' = outcome) =>
                 Written = {Filename(YearOf(time_1), v) : v \in ImagesDue}
       /\ pc # "period" => handles' \subseteq handles]_vars

\* C21 witness: the second session has appended twice to a partition the
\* first one created, through the one handle of its own, and has left another
\* partition of the first session alone
C21_Witness ==
    /\ sessions = 2 /\ pc = "period"
    /\ \E f \in datasets :
          /\ Len(disk[f].records) >= 3
          /\ {h \in handles : h[1] = 2 /\ h[2] = f} = {<<2, f, 1>>}
          /\ RecordSource(disk[f].records[1]) # provider.id
          /\ RecordSource(disk[f].records[Len(disk[f].records) - 1]) = provider.id
          /\ RecordSource(disk[f].records[Len(disk[f].records)]) = provider.id
    /\ \E g \in (DOMAIN disk) \ datasets :
          /\ g[2] # YearOf(time_1)
          /\ \A h \in handles : h[2] # g

\* the step is a call on the reader that is no close
ReaderKept ==
    data # NoData /\ data' # NoData /\ op' \notin {"data.close", "close"}

\* C22: a reader is created with no view open; a step that is no close leaves
\* every open view as it is, also when the partition files have changed since
\* it was opened, and opens a view only in get_variable or get, from the
\* variable's files; after get_variable some view is open and at most one was
\* opened by it; after a get that returned, the views of its variables are open.
C22_ViewOpenedOnce ==
    [][/\ (data = NoData /\ data' # NoData) => OpenViews(data') = {}
       /\ ReaderKept =>
            /\ data'.names = data.names
            /\ data'.files = data.files
            /\ \A i \in 1..Len(data.datasets) :
                 IF data.datasets[i] # None
                 THEN data'.datasets[i] = data.datasets[i]
                 ELSE data'.datasets[i] # None =>
                        /\ op' \in {"get_variable", "get"}
                        /\ data'.datasets[i] = Some(Concat(disk, data.files[i]))
       /\ (ReaderKept /\ op' = "get_variable" /\ data' # data) =>
            Cardinality(OpenViews(data')) = Cardinality(OpenViews(data)) + 1
       /\ (ReaderKept /\ op' = "get_variable") => OpenViews(data') # {}
       /\ (ReaderKept /\ op' = "get" /\ gets' # gets /\ outcome' = "ok") =>
            \A k \in 1..Len(GetVarIndices(data, result'.variable).indexes) :
               data'.datasets[GetVarIndices(data, result'.variable).indexes[k] + 1] # None]_vars

\* C22 witness: get_variable has returned a view that was opened before an
\* update appended to the variable's partitions
C22_Witness ==
    /\ op = "get_variable" /\ data # NoData
    /\ \E i \in 1..Len(data.datasets) :
          /\ data.datasets[i] # None
          /\ data.datasets[i][1] # Concat(disk, data.files[i])

\* the sources (numbered from 0) of the provider that share days with a period
OverlappingSources(p) ==
    {i \in 0..(Len(provider.ranges) - 1) :
        Overlaps(<<provider.ranges[i + 1][1], provider.ranges[i + 1][2]>>, p)}

\* C23: compute_variable_images calls compute_variable_images_from_sources
\* exactly when some source range overlaps the period, with the mapping from
\* the overlapping sources i to weight_i = overlap / (source_end_i -
\* source_start_i), the weight as (numerator, denominator); with an empty
\* source list or no overlapping source it makes no call and returns None.
C23_WeightsPassed ==
    op = "compute_variable_images" =>
        LET p == result.time
            due == OverlappingSources(p)
            passed == result.value.index_to_weight
        IN /\ result.value.delegated = (due # {})
           /\ DOMAIN passed = due
           /\ \A i \in due :
                LET src == provider.ranges[i + 1]
                IN /\ passed[i][1] = Min(src[2], p[2]) - Max(src[1], p[1])
                   /\ passed[i][2] = src[2] - src[1]
                   /\ passed[i][1] > 0
           /\ due = {} =>
                /\ outcome = "ok"
                /\ result.value.returned.kind = "None"
                /\ result.value.answer.kind = "not called"

\* C23 witness: of three sources the two that the period (12, 20) cuts were
\* passed on, each with weight 4/16
C23_Witness ==
    /\ op = "compute_variable_images" /\ result.value.delegated
    /\ Len(provider.ranges) = 3 /\ result.time = <<12, 20>>
    /\ result.value.index_to_weight = [i \in {0, 1} |-> <<4, 16>>]

\* a latitude and a longitude argument (scalars or pairs in ascending order)
\* that lie within the geo_bounds of a layout
WithinGeoBounds(cfg, latitude, longitude) ==
    LET lat == Unpack(latitude)
        lon == Unpack(longitude)
        ll == geo_bounds(cfg)[1]
        ur == geo_bounds(cfg)[2]
    IN /\ ll[2] <= lat[1] /\ lat[1] <= lat[2] /\ lat[2] <= ur[2]
       /\ ll[1] <= lon[1] /\ lon[1] <= lon[2] /\ lon[2] <= ur[1]

\* C24: for a query whose latitude and longitude (scalars or ranges) lie within
\* the geo_bounds of the cube, the rows CubeData.get slices with lie in
\* 0..grid_height-1 and the columns in 0..grid_width-1, and the read raises no
\* IndexError; this includes a scalar latitude on the southern edge and a
\* scalar longitude on the eastern edge.
C24_IndicesInGrid ==
    (/\ QueryMade
     /\ AllResolve(data, result.variable)
     /\ GetTimeRange(result.time).error = "ok"
     /\ WithinGeoBounds(config, result.latitude, result.longitude)) =>
        LET lat == GetLatRange(result.latitude)
            lon == GetLonRange(result.longitude)
            rows == GridRows(config, lat.range[1], lat.range[2])
            cols == GridColumns(config, lon[1], lon[2])
        IN /\ 0 <= rows[1] /\ rows[1] <= rows[2] /\ rows[2] <= config.grid_height - 1
           /\ 0 <= cols[1] /\ cols[1] <= cols[2] /\ cols[2] <= config.grid_width - 1
           /\ outcome # "IndexError"

====
